---- MODULE Spec2Model ----
(***************************************************************************)
(* The orchestration control loop of orchestrator.py: the main loop over   *)
(* merchants, analyze_merchant (the fixed four-agent pipeline),            *)
(* wait_for_run_completion (the polling loop and its tool-call handling)   *)
(* and execute_mcp_tool (the client side of the tool boundary).  The       *)
(* Assistants engine and the MCP server answer through nondeterministic    *)
(* choices at the calls the code makes to them.                            *)
(***************************************************************************)
EXTENDS Integers, Sequences, FiniteSets

\* ------------------------------------------------------------------ bounds
\* Tool calls the engine requests in one session, over all its runs.
MaxToolCalls == 2

\* --------------------------------------------------------- program constants
\* orchestrator.py:346
merchant_ids_to_analyze == <<"M1005", "M1012", "M1050">>

\* Variant of Agents: two agents of the loop's list are exchanged.
Agents_Swapped ==
    <<"Data Aggregation", "Risk Assessment", "Pattern Detection", "Action Alerting">>

\* orchestrator.py:301-305: the agent of each loop iteration, in order.
Agents == <<"Data Aggregation", "Pattern Detection", "Risk Assessment", "Action Alerting">>

\* orchestrator.py:23-104: the names of the five tool definitions.
tools_definition ==
    {"get_merchant_profile", "get_merchant_aggregated_stats", "get_anomalous_transactions",
     "update_merchant_risk_status", "create_aml_manual_review_case"}

\* server.py:91-114: the two tools with a side effect on the store.
MutatingTools == {"update_merchant_risk_status", "create_aml_manual_review_case"}

\* orchestrator.py:170-173: the tools each assistant is created with.
AssistantTools(agent) ==
    IF agent = "Risk Assessment" THEN {} ELSE tools_definition

\* The tools the engine is let to request in this model: two that read, and the
\* two that write.
RequestedTools ==
    {"get_merchant_profile", "get_merchant_aggregated_stats",
     "update_merchant_risk_status", "create_aml_manual_review_case"}

\* orchestrator.py:254 and 258: the two sleeps of the polling loop.
PollDelay == 2
ErrorDelay == 5

\* ------------------------------------------------------------------ statuses
FailedStatuses == {"failed", "cancelled", "expired"}
WaitingStatuses == {"queued", "in_progress"}
TerminalStatuses == {"completed"} \cup FailedStatuses

\* ------------------------------------------------- the tool boundary (client)
\* What one POST to /execute can come back with: a network fault, or an HTTP
\* response with a status and a body.
Bodies == {"result", "result_error", "error", "not_json", "list"}
Responses ==
    {[kind |-> k, status |-> 0, body |-> "none"] : k \in {"timeout", "connection"}}
    \cup {[kind |-> "http", status |-> s, body |-> "error"] : s \in {400, 404, 500}}
    \cup {[kind |-> "http", status |-> 200, body |-> b] : b \in Bodies}

\* The strings execute_mcp_tool can return, by their JSON shape.
Result == [error |-> FALSE, msg |-> "result"]
ErrTool == [error |-> TRUE, msg |-> "tool"]
ErrConn == [error |-> TRUE, msg |-> "MCP connection error"]
ErrJson == [error |-> TRUE, msg |-> "MCP invalid JSON response"]
ErrArgs == [error |-> TRUE, msg |-> "Invalid arguments JSON received from Assistant"]
Raised == [error |-> TRUE, msg |-> "raised"]

\* execute_mcp_tool: the set of outcomes for one response.  Raised stands for an
\* exception that leaves the function (AttributeError/TypeError on a body that
\* is no JSON object).  A non-JSON body is caught by the first or the second
\* except clause, depending on the class response.json() raises.
execute_mcp_tool(resp) ==
    IF resp.kind # "http" THEN {ErrConn}
    ELSE IF resp.status >= 400 THEN {ErrConn}
    ELSE IF resp.body = "not_json" THEN {ErrConn, ErrJson}
    ELSE IF resp.body = "list" THEN {Raised}
    ELSE IF resp.body = "error" THEN {ErrTool}
    ELSE IF resp.body = "result_error" THEN {ErrTool}
    ELSE {Result}

\* Variant of AppendOutput: an error result is not added to the batch.
AppendOutput_SkipError(outs, call, output) ==
    IF output.error THEN outs
    ELSE Append(outs, [tool_call_id |-> call.id, output |-> output])

\* orchestrator.py:234-237: one entry is appended per tool call.
AppendOutput(outs, call, output) ==
    Append(outs, [tool_call_id |-> call.id, output |-> output])

\* ---------------------------------------------------------------------- state
VARIABLES
    pc,            \* where the script is
    mid,           \* index of the merchant being analysed (the for loop, line 360)
    stage,         \* index in Agents of agent_name
    thread,        \* thread.id of the session, 0 before threads.create
    messages,      \* the messages of the session's thread, oldest first
    runs,          \* the runs created in the session, in creation order
    status,        \* the status read by the last runs.retrieve of the current run
    tool_outputs,  \* the batch being collected
    tc,            \* position of the for loop over the pending tool calls
    delay,         \* the sleep made since the last runs.retrieve call (0: none)
    last_message,  \* what get_latest_message_content returned for the stage just run
    outcome,       \* how the session ended
    nextCall,      \* next tool_call id the engine hands out
    owed,          \* requires_action was read and no full batch was accepted since
    executed,      \* tool_call ids the executor was invoked for
    reinvoked,     \* the executor was invoked again for an id already executed
    mutated,       \* the executor was invoked for a mutating tool in this session
    event,         \* the last call of the polling loop, or the read of the stage
                   \* output that followed it, and how it ended
    tools_check    \* how the tool listing request of the script ended

\* server.py: the module state of the MCP server and the last /execute exchange.
VARIABLES
    merchants_df,     \* merchant_id -> the mutable columns of its row; no row: empty
    transactions_df,  \* the transactions in source order; no row: empty
    request,          \* the last /execute request
    response,         \* the answer to it
    invoked,          \* the tool function whose body ran for it ("none": no body ran)
    before,           \* merchants_df when the request arrived
    output            \* what execute_mcp_tool returns to the driver for that answer

serverVars == <<merchants_df, transactions_df, request, response, invoked, before, output>>
driverVars == <<pc, mid, stage, thread, messages, runs, status, tool_outputs, tc, delay,
                last_message, outcome, nextCall, owed, executed, reinvoked, mutated, event,
                tools_check>>
vars == <<driverVars, serverVars>>

sessionVars == <<stage, thread, messages, runs, status, tool_outputs, tc, delay,
                 last_message, outcome, nextCall, owed, executed, reinvoked, mutated,
                 event>>
ghostVars == <<owed, executed, reinvoked, mutated>>

\* last_message before any read, and the None of get_latest_message_content.
Unset == [role |-> "unset", run |-> 0, thread |-> 0]
NoMessage == [role |-> "None", run |-> 0, thread |-> 0]

\* The empty string that joining no text block gives for message m.
EmptyText(m) == [m EXCEPT !.role = "empty"]

\* What messages.list and the newest message can be like: the call raises, the
\* message has text blocks, its content is empty, or its content holds blocks
\* of which none is text.
ListReplies == {"list_raised", "list_text", "list_no_content", "list_no_text"}

cur == Len(runs)
CurRun == runs[cur]
Ids(calls) == [i \in 1..Len(calls) |-> calls[i].id]
OutputIds(outs) == [i \in 1..Len(outs) |-> outs[i].tool_call_id]

\* ------------------------------------------------------ the server's data
\* The number of rows of the transaction table.
NumTransactions == 16

\* server.py:88: head(10).
HeadLimit == 10

\* server.py:71: the default of min_amount.
DefaultMinAmount == 1000

\* The JSON values of the arguments of a request, by type: a string, a number,
\* null, and a list of three strings.
JStr(s) == [type |-> "str", str |-> s, num |-> 0]
JNum(n) == [type |-> "num", str |-> "", num |-> n]
JNull == [type |-> "null", str |-> "", num |-> 0]
JList == [type |-> "list", str |-> "", num |-> 0]

\* Merchants with a row in synthetic_merchants.csv, and one id without a row.
KnownMerchants == {"M1005", "M1012"}
MerchantIds == KnownMerchants \cup {"M9999"}

\* The values the mutable columns of a merchant row take.
RiskStatuses == {"Low", "High"}
ReasonCodes == {"STRUCTURING"}

\* The cell of a row in a column the table does not have, and the cell pandas
\* fills in where a column is created and nothing is written.
NoColumn == [type |-> "absent", str |-> "", num |-> 0]
NaN == [type |-> "nan", str |-> "", num |-> 0]

\* server.py:13: the merchant table as read from the file.  The file has none
\* of the two columns update_merchant_risk_status writes (datagen.py:41-48).
LoadedMerchants ==
    [m \in KnownMerchants |-> [current_risk_status |-> NoColumn,
                               last_risk_reason |-> NoColumn]]

\* server.py:21-22 (and a file with a header line only): a table without rows.
EmptyFrame == [m \in {} |-> 0]

\* server.py:14-16: the transaction table as read from the file.  Timestamps are
\* days counted from 2022-12-31; the rows are not ordered by time.
Transaction(i) ==
    [transaction_id |-> i,
     merchant_id |-> IF i % 4 = 0 THEN "M1012" ELSE "M1005",
     timestamp |-> ((i * 5) % 7) + 1,
     amount |-> ((i * 3) % 5) * 500]
LoadedTransactions == [i \in 1..NumTransactions |-> Transaction(i)]

\* The date strings of the requests: two with date and time and one that is no
\* ISO date; a date without a time; and a date with a UTC offset.
DateStrings == {"2023-01-01T00:00:00", "2023-01-08T00:00:00", "last week"}
DateOnly == "2023-01-08"
DateWithOffset == "2023-01-01T00:00:00+00:00"

\* What datetime.fromisoformat gives: a day without a timezone, a day with one,
\* or an exception.
Day(n) == [raised |-> "", day |-> n, aware |-> FALSE]
Aware(n) == [raised |-> "", day |-> n, aware |-> TRUE]
Raises(exception) == [raised |-> exception, day |-> 0, aware |-> FALSE]

\* datetime.fromisoformat (server.py:43-44, 76-77) on the values of the
\* requests: TypeError for a value that is no string, ValueError for a string
\* that is no ISO date, midnight of the day for a date without a time, a
\* datetime with a timezone for a string with an offset.
fromisoformat(date_string) ==
    IF date_string.type # "str" THEN Raises("TypeError")
    ELSE CASE date_string.str = "2023-01-01T00:00:00" -> Day(1)
           [] date_string.str = "2023-01-08T00:00:00" -> Day(8)
           [] date_string.str = DateOnly -> Day(8)
           [] date_string.str = DateWithOffset -> Aware(1)
           [] date_string.str = "last week" -> Raises("ValueError")

\* The JSON values a tool function returns, by what a reader of them can tell:
\* a mapping or a list, the value under "error", "status" and "message" (""
\* when the key is absent), and the payload.  "raise": the function did not
\* return, error names the exception.
NoValue == [type |-> "none", error |-> "", status |-> "", message |-> "", payload |-> <<>>]
ErrorDict(text) == [NoValue EXCEPT !.type = "dict", !.error = text]
MessageDict(text) == [NoValue EXCEPT !.type = "dict", !.message = text]
StatusDict(st, text) == [NoValue EXCEPT !.type = "dict", !.status = st, !.message = text]
DataDict(data) == [NoValue EXCEPT !.type = "dict", !.payload = data]
List(records) == [NoValue EXCEPT !.type = "list", !.payload = records]
Raise(exception) == [NoValue EXCEPT !.type = "raise", !.error = exception]

\* Before the first request.
NoArguments ==
    [mapping |-> TRUE, keys |-> {}, merchant_id |-> JNull, start_date_str |-> JNull,
     end_date_str |-> JNull, min_amount |-> JNull, new_status |-> JNull,
     reason_code |-> JNull]
NoRequest == [json |-> "none", tool_name |-> "", arguments |-> NoArguments]
NoResponse == [status |-> 0, json |-> "none", value |-> NoValue]
NoOutput == [error |-> FALSE, msg |-> "none"]

DriverInit ==
    /\ pc = "check_server"
    /\ mid = 1
    /\ stage = 1
    /\ thread = 0
    /\ messages = <<>>
    /\ runs = <<>>
    /\ status = "none"
    /\ tool_outputs = <<>>
    /\ tc = 1
    /\ delay = 0
    /\ last_message = Unset
    /\ outcome = "none"
    /\ nextCall = 1
    /\ owed = FALSE
    /\ executed = {}
    /\ reinvoked = FALSE
    /\ mutated = FALSE
    /\ event = "none"
    /\ tools_check = "none"

\* The script starts against a server that has loaded its data and has not been
\* asked anything yet.
Init ==
    /\ DriverInit
    /\ merchants_df = LoadedMerchants
    /\ transactions_df = LoadedTransactions
    /\ request = NoRequest
    /\ response = NoResponse
    /\ invoked = "none"
    /\ before = merchants_df
    /\ output = NoOutput

\* ------------------------------------------------------------------ __main__
\* Variant of CheckServer: a failed tool listing request is only reported.
CheckServer_Continue ==
    /\ pc = "check_server"
    /\ \E ok \in BOOLEAN :
          /\ tools_check' = IF ok THEN "listed" ELSE "failed"
          /\ pc' = "analyze"
    /\ UNCHANGED <<mid, sessionVars>>
    /\ UNCHANGED serverVars

\* orchestrator.py:349-358: the tool listing request; on failure exit(1).
CheckServer ==
    /\ pc = "check_server"
    /\ \E ok \in BOOLEAN :
          /\ tools_check' = IF ok THEN "listed" ELSE "failed"
          /\ pc' = IF ok THEN "analyze" ELSE "exit"
    /\ UNCHANGED <<mid, sessionVars>>
    /\ UNCHANGED serverVars

\* Variant of Abort: the except clause reports the analysis as complete.
Abort_Complete ==
    /\ pc' = "between"
    /\ outcome' = "complete"

\* The except clause of analyze_merchant (336-339) and the return to the main loop.
Abort ==
    /\ pc' = "between"
    /\ outcome' = "aborted"

\* Variant of ThreadCreate: a thread is created only when none exists yet, and
\* is used again by the later sessions.
ThreadCreate_Reuse ==
    /\ pc = "analyze"
    /\ stage' = 1
    /\ messages' = <<>>
    /\ runs' = <<>>
    /\ status' = "none"
    /\ tool_outputs' = <<>>
    /\ tc' = 1
    /\ delay' = 0
    /\ last_message' = Unset
    /\ nextCall' = 1
    /\ owed' = FALSE
    /\ executed' = {}
    /\ reinvoked' = FALSE
    /\ mutated' = FALSE
    /\ event' = "none"
    /\ \/ /\ thread' = IF thread # 0 THEN thread ELSE mid
          /\ pc' = "message_create"
          /\ outcome' = "running"
       \/ /\ thread' = 0
          /\ Abort
    /\ UNCHANGED mid
    /\ UNCHANGED <<tools_check, serverVars>>

\* orchestrator.py:279-289: analyze_merchant starts; threads.create.
ThreadCreate ==
    /\ pc = "analyze"
    /\ stage' = 1
    /\ messages' = <<>>
    /\ runs' = <<>>
    /\ status' = "none"
    /\ tool_outputs' = <<>>
    /\ tc' = 1
    /\ delay' = 0
    /\ last_message' = Unset
    /\ nextCall' = 1
    /\ owed' = FALSE
    /\ executed' = {}
    /\ reinvoked' = FALSE
    /\ mutated' = FALSE
    /\ event' = "none"
    /\ \/ /\ thread' = mid
          /\ pc' = "message_create"
          /\ outcome' = "running"
       \/ /\ thread' = 0
          /\ Abort
    /\ UNCHANGED mid
    /\ UNCHANGED <<tools_check, serverVars>>

\* orchestrator.py:292-303: the seeded request, then the first agent.
MessageCreate ==
    /\ pc = "message_create"
    /\ \/ /\ messages' = Append(messages, [role |-> "user", run |-> 0, thread |-> thread])
          /\ pc' = "run_create"
          /\ UNCHANGED outcome
       \/ /\ Abort
          /\ UNCHANGED messages
    /\ UNCHANGED <<mid, stage, thread, runs, status, tool_outputs, tc, delay,
                   last_message, nextCall, ghostVars, event>>
    /\ UNCHANGED <<tools_check, serverVars>>

\* Variant of RunCreate: the runs after the first are given instructions built
\* from the previous output (the assignment commented out at 333).
RunCreate_WithInstructions ==
    /\ pc = "run_create"
    /\ \/ /\ runs' = Append(runs, [thread |-> thread, assistant |-> Agents[stage],
                                   instructions |-> IF stage > 1 THEN "Based on the previous analysis"
                                                    ELSE "None",
                                   status |-> "queued", tool_calls |-> <<>>])
          /\ pc' = "retrieve"
          /\ status' = "none"
          /\ delay' = 0
          /\ UNCHANGED outcome
       \/ /\ Abort
          /\ UNCHANGED <<runs, status, delay>>
    /\ event' = "none"
    /\ last_message' = Unset
    /\ UNCHANGED <<mid, stage, thread, messages, tool_outputs, tc, nextCall, ghostVars>>
    /\ UNCHANGED <<tools_check, serverVars>>

\* orchestrator.py:308-315: runs.create for agent_name, then the polling loop starts.
\* last_message is not used after the print at 323 (the assignment at 333 that
\* would use it is commented out) and is cleared.
RunCreate ==
    /\ pc = "run_create"
    /\ \/ /\ runs' = Append(runs, [thread |-> thread, assistant |-> Agents[stage],
                                   instructions |-> "None", status |-> "queued",
                                   tool_calls |-> <<>>])
          /\ pc' = "retrieve"
          /\ status' = "none"
          /\ delay' = 0
          /\ UNCHANGED outcome
       \/ /\ Abort
          /\ UNCHANGED <<runs, status, delay>>
    /\ event' = "none"
    /\ last_message' = Unset
    /\ UNCHANGED <<mid, stage, thread, messages, tool_outputs, tc, nextCall, ghostVars>>
    /\ UNCHANGED <<tools_check, serverVars>>

\* ------------------------------------------------- wait_for_run_completion
\* Variant of Returns: the branch for failed, cancelled and expired is missing.
Returns_OnlyCompleted(s) == s = "completed"

\* Variant of Returns: every status that is neither waiting nor requires_action
\* ends the wait.
Returns_Otherwise(s) == s \notin WaitingStatuses \cup {"requires_action"}

\* orchestrator.py:215-217 and 246-248: the statuses on which the loop returns.
Returns(s) == s = "completed" \/ s \in FailedStatuses

\* orchestrator.py:218: the status on which tool calls are handled.
RequiresAction(s) == s = "requires_action"

\* Variant of RetrieveFault: a fault of the status check ends the wait as a
\* failed run.
RetrieveFault_AsFailure ==
    /\ pc = "retrieve"
    /\ pc' = "returned"
    /\ status' = "failed"
    /\ delay' = 0
    /\ event' = "retrieve_fault"
    /\ UNCHANGED <<mid, stage, thread, messages, runs, tool_outputs, tc,
                   last_message, outcome, nextCall, ghostVars>>
    /\ UNCHANGED <<tools_check, serverVars>>

\* orchestrator.py:211 raising: the except clause at 256-258 sleeps 5 and the
\* loop polls the same run again.
RetrieveFault ==
    /\ pc = "retrieve"
    /\ delay' = ErrorDelay
    /\ event' = "retrieve_fault"
    /\ UNCHANGED <<pc, mid, stage, thread, messages, runs, status, tool_outputs, tc,
                   last_message, outcome, nextCall, ghostVars>>
    /\ UNCHANGED <<tools_check, serverVars>>

\* orchestrator.py:211-220 and 246-254: one poll and the dispatch on its status.
Retrieve ==
    /\ pc = "retrieve"
    /\ status' = CurRun.status
    /\ event' = "retrieve"
    /\ IF Returns(CurRun.status)
       THEN /\ pc' = "returned"
            /\ delay' = 0
            /\ UNCHANGED <<tool_outputs, tc, owed>>
       ELSE IF RequiresAction(CurRun.status)
       THEN /\ tool_outputs' = <<>>
            /\ tc' = 1
            /\ owed' = TRUE
            /\ pc' = IF Len(CurRun.tool_calls) = 0 THEN "submit" ELSE "tool_loop"
            /\ delay' = 0
       ELSE /\ delay' = PollDelay
            /\ pc' = "retrieve"
            /\ UNCHANGED <<tool_outputs, tc, owed>>
    /\ UNCHANGED <<mid, stage, thread, messages, runs, last_message, outcome, nextCall,
                   executed, reinvoked, mutated>>
    /\ UNCHANGED <<tools_check, serverVars>>

\* Variant of LoopDone: the submission is made inside the for loop, after the
\* first call.
LoopDone_AfterFirst(i, calls) == i >= 1

\* orchestrator.py:221 and 239: the for loop ends after the last pending call,
\* and only then is the batch submitted.
LoopDone(i, calls) == i >= Len(calls)

\* orchestrator.py:224-229: the arguments handed to execute_mcp_tool.
ParseArguments(arguments) == IF arguments = "json" THEN "parsed" ELSE "empty"

\* orchestrator.py:224-232: the output of one tool call.  When the arguments are
\* no JSON, 228 sets the output to the invalid-arguments error, and 232 then
\* assigns what execute_mcp_tool returned, as it does for every call.
OutputFor(arguments, returned) ==
    LET output_228 == IF ParseArguments(arguments) = "empty" THEN ErrArgs ELSE returned
        output_232 == returned
    IN  output_232

\* orchestrator.py:221-237: one iteration of the for loop over the pending tool
\* calls.  execute_mcp_tool is called whatever the parse gave; an exception that
\* leaves it is caught at 256-258, which drops the batch, sleeps 5 and polls.
ExecTool ==
    /\ pc = "tool_loop"
    /\ tc <= Len(CurRun.tool_calls)
    /\ LET call == CurRun.tool_calls[tc] IN
       /\ executed' = executed \cup {call.id}
       /\ reinvoked' = (reinvoked \/ call.id \in executed)
       /\ mutated' = (mutated \/ call.name \in MutatingTools)
       /\ \E resp \in Responses : \E out \in execute_mcp_tool(resp) :
            IF out = Raised
            THEN /\ pc' = "retrieve"
                 /\ delay' = ErrorDelay
                 /\ tool_outputs' = <<>>
                 /\ tc' = 1
                 /\ event' = "exec_raised"
            ELSE /\ tool_outputs' = AppendOutput(tool_outputs, call,
                                                 OutputFor(call.arguments, out))
                 /\ tc' = tc + 1
                 /\ pc' = IF LoopDone(tc, CurRun.tool_calls) THEN "submit" ELSE "tool_loop"
                 /\ event' = "exec"
                 /\ UNCHANGED delay
    /\ UNCHANGED <<mid, stage, thread, messages, runs, status, last_message, outcome,
                   nextCall, owed>>
    /\ UNCHANGED <<tools_check, serverVars>>

\* orchestrator.py:241-245 and 254: submit_tool_outputs with the collected batch.
\* On success the engine takes the outputs and the run is queued again; when the
\* call raises, 256-258 sleeps 5 and the loop polls the run, still in
\* requires_action.  tool_outputs is dead after the call and is cleared.
Submit ==
    /\ pc = "submit"
    /\ \/ /\ runs' = [runs EXCEPT ![cur].status = "queued", ![cur].tool_calls = <<>>]
          /\ owed' = (OutputIds(tool_outputs) # Ids(CurRun.tool_calls))
          /\ delay' = PollDelay
          /\ event' = "submit"
       \/ /\ delay' = ErrorDelay
          /\ event' = "submit_fault"
          /\ UNCHANGED <<runs, owed>>
    /\ pc' = "retrieve"
    /\ tool_outputs' = <<>>
    /\ tc' = 1
    /\ UNCHANGED <<mid, stage, thread, messages, status, last_message, outcome, nextCall,
                   executed, reinvoked, mutated>>
    /\ UNCHANGED <<tools_check, serverVars>>

\* ------------------------------------------------------ analyze_merchant, 317-334
\* Variant of RunFailed: only the status failed stops the workflow.
RunFailed_OnlyFailed(s) == s = "failed"

\* orchestrator.py:317: the test that stops the workflow.
RunFailed(s) == s # "completed"

\* Variant of get_latest_message_content: the list is read oldest first.
get_latest_message_content_Oldest(thread_id, reply) ==
    LET data == SelectSeq(messages, LAMBDA m : m.thread = thread_id)
    IN  IF reply = "list_raised" THEN NoMessage
        ELSE IF Len(data) = 0 THEN NoMessage
        ELSE IF reply = "list_no_content" THEN NoMessage
        ELSE IF reply = "list_no_text" THEN EmptyText(data[1])
        ELSE data[1]

\* orchestrator.py:261-274: the text of the newest message of the thread.  None
\* when the list call raises (272-274), when there is no message (265) and when
\* the content of the message is empty (267); the join of its text blocks
\* otherwise (269-270), which is the empty string when no block is text.
get_latest_message_content(thread_id, reply) ==
    LET data == SelectSeq(messages, LAMBDA m : m.thread = thread_id)
    IN  IF reply = "list_raised" THEN NoMessage
        ELSE IF Len(data) = 0 THEN NoMessage
        ELSE IF reply = "list_no_content" THEN NoMessage
        ELSE IF reply = "list_no_text" THEN EmptyText(data[Len(data)])
        ELSE data[Len(data)]

\* Variant of StageResult: the loop goes on to the next agent without waiting
\* for the run it has just created.
StageResult_NoWait ==
    /\ pc \in {"returned", "retrieve"}
    /\ \E reply \in ListReplies :
          /\ last_message' = get_latest_message_content(thread, reply)
          /\ event' = reply
    /\ IF stage = Len(Agents)
       THEN /\ outcome' = "complete"
            /\ pc' = "between"
            /\ UNCHANGED stage
       ELSE /\ stage' = stage + 1
            /\ pc' = "run_create"
            /\ UNCHANGED outcome
    /\ UNCHANGED <<mid, thread, messages, runs, status, tool_outputs, tc, delay, nextCall,
                   ghostVars>>
    /\ UNCHANGED <<tools_check, serverVars>>

\* Variant of StageResult: a run that did not complete is created again for the
\* same agent.
StageResult_Retry ==
    /\ pc = "returned"
    /\ IF RunFailed(status)
       THEN /\ pc' = "run_create"
            /\ UNCHANGED <<stage, last_message, outcome, event>>
       ELSE /\ \E reply \in ListReplies :
                  /\ last_message' = get_latest_message_content(thread, reply)
                  /\ event' = reply
            /\ IF stage = Len(Agents)
               THEN /\ outcome' = "complete"
                    /\ pc' = "between"
                    /\ UNCHANGED stage
               ELSE /\ stage' = stage + 1
                    /\ pc' = "run_create"
                    /\ UNCHANGED outcome
    /\ UNCHANGED <<mid, thread, messages, runs, status, tool_outputs, tc, delay, nextCall,
                   ghostVars>>
    /\ UNCHANGED <<tools_check, serverVars>>

\* orchestrator.py:317-334: what follows the return of wait_for_run_completion.
StageResult ==
    /\ pc = "returned"
    /\ IF RunFailed(status)
       THEN /\ outcome' = "halted"
            /\ pc' = "between"
            /\ UNCHANGED <<stage, last_message, event>>
       ELSE /\ \E reply \in ListReplies :
                  /\ last_message' = get_latest_message_content(thread, reply)
                  /\ event' = reply
            /\ IF stage = Len(Agents)
               THEN /\ outcome' = "complete"
                    /\ pc' = "between"
                    /\ UNCHANGED stage
               ELSE /\ stage' = stage + 1
                    /\ pc' = "run_create"
                    /\ UNCHANGED outcome
    /\ UNCHANGED <<mid, thread, messages, runs, status, tool_outputs, tc, delay, nextCall,
                   ghostVars>>
    /\ UNCHANGED <<tools_check, serverVars>>

\* Variant of NextMerchant: a session that was not complete ends the main loop,
\* as an exception leaving analyze_merchant would.
NextMerchant_StopOnFailure ==
    /\ pc = "between"
    /\ IF mid < Len(merchant_ids_to_analyze) /\ outcome = "complete"
       THEN /\ mid' = mid + 1
            /\ pc' = "analyze"
       ELSE /\ pc' = "finished"
            /\ UNCHANGED mid
    /\ UNCHANGED sessionVars
    /\ UNCHANGED <<tools_check, serverVars>>

\* orchestrator.py:360-362: the next merchant of the list, or the end of the script.
NextMerchant ==
    /\ pc = "between"
    /\ IF mid < Len(merchant_ids_to_analyze)
       THEN /\ mid' = mid + 1
            /\ pc' = "analyze"
       ELSE /\ pc' = "finished"
            /\ UNCHANGED mid
    /\ UNCHANGED sessionVars
    /\ UNCHANGED <<tools_check, serverVars>>

\* ------------------------------------------------------------------ the engine
\* The run state machine of the reasoning engine: queued, in_progress,
\* requires_action (left only through a submission), and the terminal statuses.
Active == cur >= 1 /\ pc \in {"retrieve", "tool_loop", "submit"}

EngineStart ==
    /\ Active
    /\ CurRun.status = "queued"
    /\ runs' = [runs EXCEPT ![cur].status = "in_progress"]
    /\ UNCHANGED <<pc, mid, stage, thread, messages, status, tool_outputs, tc, delay,
                   last_message, outcome, nextCall, ghostVars, event>>
    /\ UNCHANGED <<tools_check, serverVars>>

\* The run pauses with n pending tool calls, each with a fresh id, a tool of the
\* run's assistant and an arguments string that is JSON or not.
EngineRequiresAction ==
    /\ Active
    /\ CurRun.status = "in_progress"
    /\ AssistantTools(CurRun.assistant) # {}
    /\ \E n \in 0..(MaxToolCalls + 1 - nextCall) :
       \E names \in [1..n -> AssistantTools(CurRun.assistant) \cap RequestedTools] :
       \E args \in [1..n -> {"json", "not_json"}] :
          /\ runs' = [runs EXCEPT ![cur].status = "requires_action",
                                  ![cur].tool_calls =
                                      [i \in 1..n |-> [id |-> nextCall + i - 1,
                                                       name |-> names[i],
                                                       arguments |-> args[i]]]]
          /\ nextCall' = nextCall + n
    /\ UNCHANGED <<pc, mid, stage, thread, messages, status, tool_outputs, tc, delay,
                   last_message, outcome, ghostVars, event>>
    /\ UNCHANGED <<tools_check, serverVars>>

\* The run completes: its agent-response message is appended to the thread.
EngineComplete ==
    /\ Active
    /\ CurRun.status = "in_progress"
    /\ runs' = [runs EXCEPT ![cur].status = "completed"]
    /\ messages' = Append(messages, [role |-> "assistant", run |-> cur, thread |-> CurRun.thread])
    /\ UNCHANGED <<pc, mid, stage, thread, status, tool_outputs, tc, delay,
                   last_message, outcome, nextCall, ghostVars, event>>
    /\ UNCHANGED <<tools_check, serverVars>>

EngineFail ==
    /\ Active
    /\ CurRun.status \in WaitingStatuses
    /\ \E s \in FailedStatuses : runs' = [runs EXCEPT ![cur].status = s]
    /\ UNCHANGED <<pc, mid, stage, thread, messages, status, tool_outputs, tc, delay,
                   last_message, outcome, nextCall, ghostVars, event>>
    /\ UNCHANGED <<tools_check, serverVars>>

Next ==
    \/ CheckServer
    \/ ThreadCreate
    \/ MessageCreate
    \/ RunCreate
    \/ RetrieveFault
    \/ Retrieve
    \/ ExecTool
    \/ Submit
    \/ StageResult
    \/ NextMerchant
    \/ EngineStart
    \/ EngineRequiresAction
    \/ EngineComplete
    \/ EngineFail

Spec == Init /\ [][Next]_vars

\* The script keeps running; the status check succeeds after finitely many
\* faults; a submission is accepted after finitely many faults; the engine
\* starts a queued run and brings a run that is in progress again and again to
\* a terminal status.
SubmitAccepted == Submit /\ event' = "submit"
Fairness ==
    /\ WF_vars(CheckServer)
    /\ WF_vars(ThreadCreate)
    /\ WF_vars(MessageCreate)
    /\ WF_vars(RunCreate)
    /\ WF_vars(Retrieve)
    /\ WF_vars(ExecTool)
    /\ SF_vars(SubmitAccepted)
    /\ WF_vars(StageResult)
    /\ WF_vars(NextMerchant)
    /\ WF_vars(EngineStart)
    /\ SF_vars(EngineComplete \/ EngineFail)

FairSpec == Init /\ [][Next]_vars /\ Fairness

\* ------------------------------------------- an engine with further statuses
\* Statuses of a run that the polling loop does not name: one the run passes
\* through while it is being cancelled, and one it stays in.
UnknownStatuses == {"cancelling", "incomplete"}

\* A run in progress takes a status the polling loop does not name.
EngineUnknown ==
    /\ Active
    /\ CurRun.status = "in_progress"
    /\ \E s \in UnknownStatuses : runs' = [runs EXCEPT ![cur].status = s]
    /\ UNCHANGED <<pc, mid, stage, thread, messages, status, tool_outputs, tc, delay,
                   last_message, outcome, nextCall, ghostVars, event>>
    /\ UNCHANGED <<tools_check, serverVars>>

\* The cancellation of a run ends.
EngineCancelled ==
    /\ Active
    /\ CurRun.status = "cancelling"
    /\ runs' = [runs EXCEPT ![cur].status = "cancelled"]
    /\ UNCHANGED <<pc, mid, stage, thread, messages, status, tool_outputs, tc, delay,
                   last_message, outcome, nextCall, ghostVars, event>>
    /\ UNCHANGED <<tools_check, serverVars>>

NextUnknown ==
    \/ Next
    \/ EngineUnknown
    \/ EngineCancelled

UnknownSpec == Init /\ [][NextUnknown]_vars

\* ===================================================================== claims
KnownStatuses == WaitingStatuses \cup {"requires_action"} \cup TerminalStatuses
Polling == pc \in {"retrieve", "tool_loop", "submit"}

\* C1: every batch handed to submit_tool_outputs has exactly one result per
\* pending tool call of the requires_action just read, in the order of the
\* requests, each tagged with the id of its request: none omitted, none twice,
\* whatever the executor answered.
C1_FullBatch ==
    pc = "submit" =>
        /\ CurRun.status = "requires_action"
        /\ Len(tool_outputs) = Len(CurRun.tool_calls)
        /\ OutputIds(tool_outputs) = Ids(CurRun.tool_calls)
        /\ \A i, j \in 1..Len(tool_outputs) :
              i # j => tool_outputs[i].tool_call_id # tool_outputs[j].tool_call_id

\* Two pending calls, the first answered by a connection error or timeout, the
\* second by a result, both in the batch about to be submitted.
C1_Witness ==
    /\ pc = "submit"
    /\ Len(CurRun.tool_calls) = 2
    /\ Len(tool_outputs) = 2
    /\ tool_outputs[1].output = ErrConn
    /\ tool_outputs[2].output = Result

\* C2 (as claimed): the executor is invoked exactly once per pending tool call
\* id over the life of a run, and never again for the same id, also when the
\* submission raises or a later call of the batch faults.
C2_ExactlyOnce ==
    /\ ~reinvoked
    /\ pc = "submit" => \A i \in 1..Len(CurRun.tool_calls) : CurRun.tool_calls[i].id \in executed

\* C3: every run of the session but the newest is terminal, so the run of the
\* next stage is created only after the run before it ended, and at most one
\* run of the thread is non-terminal; all runs are runs of the session's thread.
C3_Sequential ==
    /\ \A i \in 1..Len(runs) : i < Len(runs) => runs[i].status \in TerminalStatuses
    /\ Cardinality({i \in 1..Len(runs) : runs[i].status \notin TerminalStatuses}) <= 1
    /\ \A i \in 1..Len(runs) : runs[i].thread = thread

\* The second stage's run is in progress after the first stage's run completed.
C3_Witness ==
    /\ Len(runs) = 2
    /\ runs[1].status = "completed"
    /\ runs[2].status = "in_progress"

\* C4: a run that is failed, cancelled or expired is the last run of its
\* session and the session is not reported complete; once the failure has been
\* returned and handled the session is halted at that stage.
C4_HaltOnFailure ==
    /\ \A i \in 1..Len(runs) :
          runs[i].status \in FailedStatuses => (i = Len(runs) /\ outcome # "complete")
    /\ (pc \in {"between", "analyze", "finished"} /\ status \in FailedStatuses) =>
          (outcome = "halted" /\ Len(runs) = stage)

\* The session halted at the second stage on a cancelled run.
C4_Witness ==
    /\ pc = "between"
    /\ outcome = "halted"
    /\ stage = 2
    /\ status = "cancelled"
    /\ Len(runs) = 2

\* C5 (as claimed): no failure at the tool boundary leaves execute_mcp_tool as
\* an exception or aborts the batch being collected.
C5_NoEscape == event # "exec_raised"

\* C6 (as claimed): in a session that halted before Action Alerting the
\* executor was never invoked for update_merchant_risk_status or
\* create_aml_manual_review_case.
C6_NoSideEffect ==
    (outcome = "halted" /\ Agents[stage] # "Action Alerting") => ~mutated

\* C7: the statuses read for a run follow the run state machine: after
\* requires_action the next different status is read only after a full batch
\* was accepted, and nothing is read after a terminal status.
C7_StatusPath ==
    [][status' # status =>
          \/ status' = "none"
          \/ /\ status \in {"none"} \cup WaitingStatuses
             /\ status' \in KnownStatuses
          \/ /\ status = "requires_action"
             /\ status' \in WaitingStatuses \cup TerminalStatuses
             /\ ~owed']_vars

\* The first stage's run was read in requires_action, its tool call executed,
\* and then read completed.
C7_Witness ==
    /\ stage = 1
    /\ pc = "returned"
    /\ status = "completed"
    /\ executed # {}
    /\ ~owed

\* C8: after a fault of the status check the loop has neither returned nor
\* halted: it has slept the longer delay and is about to poll the same run.
C8_FaultRetried ==
    event = "retrieve_fault" =>
        /\ pc = "retrieve"
        /\ delay = ErrorDelay
        /\ ErrorDelay > PollDelay
        /\ outcome = "running"
        /\ Len(runs) = stage
        /\ CurRun.assistant = Agents[stage]

\* The status check faulted on a run that had already been read in progress.
C8_Witness ==
    /\ event = "retrieve_fault"
    /\ status = "in_progress"
    /\ pc = "retrieve"
    /\ delay = ErrorDelay

\* C9: the loop has returned only on a terminal status it has just read; a
\* read of queued or in_progress is followed by the fixed delay and another
\* poll, with no executor call and no submission; after a terminal status was
\* read the run is neither polled nor submitted to.
C9_ReturnOnlyTerminal ==
    /\ pc = "returned" => (event = "retrieve" /\ status \in TerminalStatuses
                           /\ status = CurRun.status)
    /\ (event = "retrieve" /\ status \in WaitingStatuses) =>
          (pc = "retrieve" /\ delay = PollDelay /\ tool_outputs = <<>>)
    /\ status \in TerminalStatuses => ~Polling

\* The loop returned on an expired run.
C9_Witness ==
    /\ pc = "returned"
    /\ status = "expired"
    /\ event = "retrieve"

\* C10: a session has at most one run per stage, the i-th run being the run of
\* the i-th agent, so at most four runs, and no run follows a run that is
\* failed, cancelled or expired.
C10_NoRetry ==
    /\ Len(runs) <= Len(Agents)
    /\ Len(runs) <= 4
    /\ \A i \in 1..Len(runs) : runs[i].assistant = Agents[i]
    /\ \A i, j \in 1..Len(runs) : i # j => runs[i].assistant # runs[j].assistant
    /\ \A i, j \in 1..Len(runs) : (i < j) => runs[i].status \notin FailedStatuses

\* The fourth run failed and the session halted with four runs.
C10_Witness ==
    /\ Len(runs) = 4
    /\ runs[4].status = "failed"
    /\ pc = "between"
    /\ outcome = "halted"

\* C12: in every session, whatever the subject, the agents of the runs created
\* are a prefix of Data Aggregation, Pattern Detection, Risk Assessment, Action
\* Alerting: none skipped, repeated or out of order.
C12_FixedOrder ==
    LET order == <<"Data Aggregation", "Pattern Detection", "Risk Assessment",
                   "Action Alerting">>
    IN  /\ Len(runs) <= Len(order)
        /\ \A i \in 1..Len(runs) : runs[i].assistant = order[i]
        /\ (Polling \/ pc = "returned") => Len(runs) = stage

\* The session of the second subject has created the runs of all four agents.
C12_Witness ==
    /\ mid = 2
    /\ Len(runs) = 4
    /\ runs[4].assistant = "Action Alerting"

\* C13: the thread holds the seeded request first, written before any run was
\* created, and after it only the agent responses of the completed runs, one
\* per run in run order; every run was created with instructions None.
C13_SeedOnly ==
    LET done == {i \in 1..Len(runs) : runs[i].status = "completed"}
    IN  /\ \A i \in 1..Len(messages) : (messages[i].role = "user") <=> (i = 1)
        /\ runs # <<>> => (Len(messages) >= 1 /\ messages[1].run = 0)
        /\ (pc \in {"run_create", "retrieve", "tool_loop", "submit", "returned"})
              => Len(messages) = 1 + Cardinality(done)
        /\ \A i \in 2..Len(messages) :
              messages[i].role = "assistant" /\ messages[i].run = i - 1
        /\ \A i \in 1..Len(runs) : runs[i].instructions = "None"

\* Three runs created, two agent responses after the seeded request.
C13_Witness ==
    /\ Len(runs) = 3
    /\ Len(messages) = 3
    /\ messages[1].role = "user"
    /\ runs[3].instructions = "None"

\* C15: the output read after a stage's run completed, when the read gave a
\* message, is the newest message of the thread and is the agent response
\* appended by that stage's run.
C15_NewestMessage ==
    LET read == last_message.role \in {"user", "assistant"}
        data == SelectSeq(messages, LAMBDA m : m.thread = thread)
    IN  /\ (pc = "run_create" /\ stage > 1 /\ read) =>
              /\ last_message = data[Len(data)]
              /\ last_message.role = "assistant"
              /\ last_message.run = stage - 1
        /\ (outcome = "complete" /\ read) =>
              /\ last_message = data[Len(data)]
              /\ last_message.role = "assistant"
              /\ last_message.run = Len(Agents)

\* The output of the second stage was read: the response of the second run.
C15_Witness ==
    /\ pc = "run_create"
    /\ stage = 3
    /\ last_message.role = "assistant"
    /\ last_message.run = 2
    /\ Len(messages) = 3

\* C16: while a session runs, its thread is the one created for it, no thread
\* of an earlier session, and its seed message and all its runs are on that
\* thread.
C16_OwnThread ==
    (pc \in {"message_create", "run_create", "retrieve", "tool_loop", "submit", "returned"}) =>
        /\ thread = mid
        /\ \A i \in 1..Len(runs) : runs[i].thread = mid
        /\ \A i \in 1..Len(messages) : messages[i].thread = mid

\* The third session, with its seed message and a run on its own thread.
C16_Witness ==
    /\ mid = 3
    /\ thread = 3
    /\ Len(runs) >= 1
    /\ Len(messages) >= 1

\* ----------------------------------------------------------- the MCP server
\* server.py:117-123.
AVAILABLE_TOOLS ==
    {"get_merchant_profile", "get_merchant_aggregated_stats", "get_anomalous_transactions",
     "update_merchant_risk_status", "create_aml_manual_review_case"}

\* server.py:32, 49, 82: the comparison of the merchant_id column with the
\* argument.  A list of another length than the column makes pandas raise
\* ValueError; a value that is no string equals no id.
Mismatched(merchant_id) == merchant_id.type = "list"
Matches(id, merchant_id) == merchant_id.type = "str" /\ merchant_id.str = id

\* server.py:28-36.
get_merchant_profile(merchant_id) ==
    IF DOMAIN merchants_df = {} THEN ErrorDict("Merchant data not loaded")
    ELSE IF Mismatched(merchant_id) THEN Raise("ValueError")
    ELSE IF \A id \in DOMAIN merchants_df : ~Matches(id, merchant_id)
         THEN ErrorDict("Merchant ID not found.")
    ELSE DataDict(<<merchants_df[merchant_id.str]>>)

RECURSIVE Sum(_)
Sum(txns) == IF Len(txns) = 0 THEN 0 ELSE Head(txns).amount + Sum(Tail(txns))

\* server.py:42-46, 75-79: the two dates are parsed in turn; ValueError is
\* caught and answered, TypeError leaves the function.
ParseRange(start_date_str, end_date_str) ==
    LET start_date == fromisoformat(start_date_str)
        end_date == fromisoformat(end_date_str)
    IN  IF start_date.raised # ""
        THEN [raised |-> start_date.raised, start |-> 0, end |-> 0, aware |-> FALSE]
        ELSE IF end_date.raised # ""
        THEN [raised |-> end_date.raised, start |-> 0, end |-> 0, aware |-> FALSE]
        ELSE [raised |-> "", start |-> start_date.day, end |-> end_date.day,
              aware |-> start_date.aware \/ end_date.aware]

\* server.py:38-69.  The comparisons of 49-51 are evaluated in turn: the one
\* with a list as merchant_id raises ValueError, the one of the timestamp
\* column, which has no timezone, with a datetime that has one raises TypeError.
get_merchant_aggregated_stats(merchant_id, start_date_str, end_date_str) ==
    LET range == ParseRange(start_date_str, end_date_str)
        merchant_txns ==
            SelectSeq(transactions_df,
                      LAMBDA t : /\ Matches(t.merchant_id, merchant_id)
                                 /\ t.timestamp >= range.start
                                 /\ t.timestamp <= range.end)
    IN  IF Len(transactions_df) = 0 THEN ErrorDict("Transaction data not loaded")
        ELSE IF range.raised = "TypeError" THEN Raise("TypeError")
        ELSE IF range.raised = "ValueError"
             THEN ErrorDict("Invalid date format. Use ISO format (YYYY-MM-DDTHH:MM:SS).")
        ELSE IF Mismatched(merchant_id) THEN Raise("ValueError")
        ELSE IF range.aware THEN Raise("TypeError")
        ELSE IF Len(merchant_txns) = 0
             THEN MessageDict("No transactions found in the period.")
        ELSE DataDict(<<[total_transactions |-> Len(merchant_txns),
                         total_value |-> Sum(merchant_txns)]>>)

\* Variant of head: no limit on the number of rows.
head_All(df, n) == df

\* DataFrame.head(n): the first n rows, all of them when there are fewer.
head(df, n) == SubSeq(df, 1, IF Len(df) < n THEN Len(df) ELSE n)

\* server.py:85: the comparison of the amount column with min_amount.  A string
\* raises TypeError, a list of another length than the column raises
\* ValueError; null is at least no amount.
AtLeast(amount, min_amount) == min_amount.type = "num" /\ amount >= min_amount.num

\* server.py:71-88.  The comparisons of 82-85 are evaluated in turn, as in
\* get_merchant_aggregated_stats, and the one with min_amount last.
get_anomalous_transactions(merchant_id, start_date_str, end_date_str, min_amount) ==
    LET range == ParseRange(start_date_str, end_date_str)
        anomalous_txns ==
            SelectSeq(transactions_df,
                      LAMBDA t : /\ Matches(t.merchant_id, merchant_id)
                                 /\ t.timestamp >= range.start
                                 /\ t.timestamp <= range.end
                                 /\ AtLeast(t.amount, min_amount))
    IN  IF Len(transactions_df) = 0
        THEN List(<<[error |-> "Transaction data not loaded"]>>)
        ELSE IF range.raised = "TypeError" THEN Raise("TypeError")
        ELSE IF range.raised = "ValueError"
             THEN List(<<[error |-> "Invalid date format. Use ISO format (YYYY-MM-DDTHH:MM:SS)."]>>)
        ELSE IF Mismatched(merchant_id) THEN Raise("ValueError")
        ELSE IF range.aware THEN Raise("TypeError")
        ELSE IF min_amount.type = "str" THEN Raise("TypeError")
        ELSE IF min_amount.type = "list" THEN Raise("ValueError")
        ELSE List(head(anomalous_txns, HeadLimit))

\* server.py:98, 99: df.loc[rows, column] = value, before anything is written.
\* A column the table does not have is created with NaN in every row.
Created(df, column) ==
    [id \in DOMAIN df |->
        IF df[id][column] = NoColumn THEN [df[id] EXCEPT ![column] = NaN] ELSE df[id]]

\* server.py:98, 99: df.loc[rows, column] = value for one row and a value that
\* is no list.
Assigned(df, column, merchant_id, value) ==
    [Created(df, column) EXCEPT ![merchant_id][column] = value]

\* server.py:91-103: the returned mapping, or the exception, and the merchant
\* table afterwards; merchant_id is a string or null.  The row selected at 98
\* and 99 is one row: a list of three values makes the assignment raise
\* ValueError, after the column is created; at 99 the status is written by then.
update_merchant_risk_status(merchant_id, new_status, reason_code) ==
    IF DOMAIN merchants_df # {}
    THEN IF \E id \in DOMAIN merchants_df : Matches(id, merchant_id)
         THEN IF new_status.type = "list"
              THEN [value |-> Raise("ValueError"),
                    merchants_df |-> Created(merchants_df, "current_risk_status")]
              ELSE LET written == Assigned(merchants_df, "current_risk_status",
                                           merchant_id.str, new_status)
                   IN  IF reason_code.type = "list"
                       THEN [value |-> Raise("ValueError"),
                             merchants_df |-> Created(written, "last_risk_reason")]
                       ELSE [value |-> StatusDict("success", ""),
                             merchants_df |-> Assigned(written, "last_risk_reason",
                                                       merchant_id.str, reason_code)]
         ELSE [value |-> StatusDict("error", "Merchant not found for status update."),
               merchants_df |-> merchants_df]
    ELSE [value |-> StatusDict("error", "Merchant data not loaded."),
          merchants_df |-> merchants_df]

\* server.py:106-114: the case is only printed; the store is not touched.
create_aml_manual_review_case(merchant_id) == StatusDict("success", "")

\* The parameters of each tool function, and those without a default.
Parameters(tool_name) ==
    CASE tool_name = "get_merchant_profile" -> {"merchant_id"}
      [] tool_name = "get_merchant_aggregated_stats" ->
            {"merchant_id", "start_date_str", "end_date_str"}
      [] tool_name = "get_anomalous_transactions" ->
            {"merchant_id", "start_date_str", "end_date_str", "min_amount"}
      [] tool_name = "update_merchant_risk_status" ->
            {"merchant_id", "new_status", "reason_code"}
      [] tool_name = "create_aml_manual_review_case" ->
            {"merchant_id", "risk_category", "summary", "key_indicators"}
Required(tool_name) == Parameters(tool_name) \ {"min_amount"}

\* Variant of Binds: missing and unexpected keys are tolerated.
Binds_Any(tool_name, arguments) == arguments.mapping

\* server.py:158: func(**arguments) binds the arguments before the body runs;
\* it raises TypeError for a value that is no mapping, for a missing parameter
\* and for an unexpected keyword.  The values bound are not looked at.
Binds(tool_name, arguments) ==
    /\ arguments.mapping
    /\ Required(tool_name) \subseteq arguments.keys
    /\ arguments.keys \subseteq Parameters(tool_name)

\* server.py:153-159: the body of the tool function, run on bound arguments.
Call(tool_name, a) ==
    CASE tool_name = "get_merchant_profile" ->
            [value |-> get_merchant_profile(a.merchant_id), merchants_df |-> merchants_df]
      [] tool_name = "get_merchant_aggregated_stats" ->
            [value |-> get_merchant_aggregated_stats(a.merchant_id, a.start_date_str,
                                                     a.end_date_str),
             merchants_df |-> merchants_df]
      [] tool_name = "get_anomalous_transactions" ->
            [value |-> get_anomalous_transactions(
                           a.merchant_id, a.start_date_str, a.end_date_str,
                           IF "min_amount" \in a.keys THEN a.min_amount
                           ELSE JNum(DefaultMinAmount)),
             merchants_df |-> merchants_df]
      [] tool_name = "update_merchant_risk_status" ->
            update_merchant_risk_status(a.merchant_id, a.new_status, a.reason_code)
      [] tool_name = "create_aml_manual_review_case" ->
            [value |-> create_aml_manual_review_case(a.merchant_id),
             merchants_df |-> merchants_df]

\* An answer of /execute: the HTTP status, the top-level key of the JSON body
\* ("html": the body is an error page, no JSON), the value under that key, the
\* tool function whose body started and the merchant table afterwards.
Answer(code, key, value, ran, store) ==
    [response |-> [status |-> code, json |-> key, value |-> value],
     invoked |-> ran, merchants_df |-> store]

\* server.py:140-170.  A body that is JSON but no object makes data.get raise
\* AttributeError at 144, outside the try: the framework answers 500 with an
\* error page.  Inside the try, TypeError is answered with 400 whether the
\* binding raised it or the body of the function did (160-164); any other
\* exception of the body is answered with 500 and a JSON error (165-170).  What
\* the body wrote before it raised stays written.
Dispatch(req) ==
    IF req.json # "object"
    THEN Answer(500, "html", NoValue, "none", merchants_df)
    ELSE IF req.tool_name = ""
    THEN Answer(400, "error", ErrorDict("Missing 'tool_name'"), "none", merchants_df)
    ELSE IF req.tool_name \notin AVAILABLE_TOOLS
    THEN Answer(404, "error", ErrorDict("Tool not found."), "none", merchants_df)
    ELSE IF ~Binds(req.tool_name, req.arguments)
    THEN Answer(400, "error", ErrorDict("Argument mismatch"), "none", merchants_df)
    ELSE LET done == Call(req.tool_name, req.arguments)
         IN  IF done.value.type # "raise"
             THEN Answer(200, "result", done.value, req.tool_name, done.merchants_df)
             ELSE IF done.value.error = "TypeError"
             THEN Answer(400, "error", ErrorDict("Argument mismatch"), req.tool_name,
                         done.merchants_df)
             ELSE Answer(500, "error", ErrorDict("Internal server error"), req.tool_name,
                         done.merchants_df)

\* orchestrator.py:189-196: what the client reads of an answer.  The body of a
\* 4xx or 5xx answer is never read; a result that is a mapping with the key
\* "error" is dumped as such.
ClientView(resp) ==
    [kind |-> "http", status |-> resp.status,
     body |-> IF resp.status >= 400 \/ resp.json = "error" THEN "error"
              ELSE IF resp.value.type = "dict" /\ resp.value.error # "" THEN "result_error"
              ELSE "result"]

\* ------------------------------------------------------ the /execute requests
Args(keys, m, s, e, a, ns, rc) ==
    [mapping |-> TRUE, keys |-> keys, merchant_id |-> m, start_date_str |-> s,
     end_date_str |-> e, min_amount |-> a, new_status |-> ns, reason_code |-> rc]

\* Arguments that fit the signature of the tool, with values of the annotated
\* types.
ArgumentsFor(tool_name) ==
    CASE tool_name = "get_merchant_profile" ->
            {Args({"merchant_id"}, JStr(m), JNull, JNull, JNull, JNull, JNull) :
                m \in MerchantIds}
      [] tool_name = "get_merchant_aggregated_stats" ->
            {Args(Parameters(tool_name), JStr(m), JStr(s), JStr(e), JNull, JNull, JNull) :
                m \in MerchantIds, s \in DateStrings, e \in DateStrings}
      [] tool_name = "get_anomalous_transactions" ->
            {Args(Parameters(tool_name), JStr(m), JStr(s), JStr(e), JNum(a), JNull, JNull) :
                m \in MerchantIds, s \in DateStrings, e \in DateStrings, a \in {0, 1500}}
            \cup {Args(Required(tool_name), JStr(m), JStr(s), JStr(e), JNull, JNull, JNull) :
                    m \in MerchantIds, s \in DateStrings, e \in DateStrings}
      [] tool_name = "update_merchant_risk_status" ->
            {Args(Parameters(tool_name), JStr(m), JNull, JNull, JNull, JStr(ns), JStr(rc)) :
                m \in MerchantIds, ns \in RiskStatuses, rc \in ReasonCodes}
      [] tool_name = "create_aml_manual_review_case" ->
            {Args(Parameters(tool_name), JStr(m), JNull, JNull, JNull, JNull, JNull) :
                m \in MerchantIds}

\* Arguments that fit the signature of the tool with a value of another type
\* than annotated (null, a list, a string for a number), or with a date
\* without a time or with a UTC offset.
OtherValues(tool_name) ==
    CASE tool_name = "get_merchant_profile" ->
            {Args({"merchant_id"}, m, JNull, JNull, JNull, JNull, JNull) :
                m \in {JNull, JList}}
      [] tool_name = "get_merchant_aggregated_stats" ->
            {Args(Parameters(tool_name), JStr("M1005"), s, e, JNull, JNull, JNull) :
                s \in {JNull, JStr("2023-01-01T00:00:00"), JStr("last week")},
                e \in {JNull, JStr(DateOnly)}}
            \cup {Args(Parameters(tool_name), JList, JStr("2023-01-01T00:00:00"), JStr(e),
                       JNull, JNull, JNull) : e \in {"2023-01-08T00:00:00", "last week"}}
            \cup {Args(Parameters(tool_name), m, JStr(DateWithOffset), JStr(e),
                       JNull, JNull, JNull) :
                    m \in {JStr("M1005"), JList}, e \in {"2023-01-08T00:00:00", "last week"}}
            \cup {Args(Parameters(tool_name), JStr("M1005"), JStr("2023-01-01T00:00:00"),
                       JStr(DateWithOffset), JNull, JNull, JNull)}
      [] tool_name = "get_anomalous_transactions" ->
            {Args(Required(tool_name), JStr("M1005"), s, e, JNull, JNull, JNull) :
                s \in {JNull, JStr("2023-01-01T00:00:00")}, e \in {JNull, JStr(DateOnly)}}
            \cup {Args(Required(tool_name), JList, JStr("2023-01-01T00:00:00"),
                       JStr("2023-01-08T00:00:00"), JNull, JNull, JNull)}
            \cup {Args(Parameters(tool_name), m, s, e, a, JNull, JNull) :
                    m \in {JStr("M1005"), JList},
                    s \in {JNull, JStr("2023-01-01T00:00:00"), JStr(DateWithOffset)},
                    e \in {JStr("2023-01-08T00:00:00"), JStr("last week"),
                           JStr(DateWithOffset)},
                    a \in {JStr("1000"), JList, JNull, JNum(0)}}
      [] tool_name = "update_merchant_risk_status" ->
            {Args(Parameters(tool_name), m, JNull, JNull, JNull, ns, rc) :
                m \in {JStr("M1005"), JStr("M9999"), JNull},
                ns \in {JStr("Low"), JStr("High"), JList},
                rc \in {JStr("STRUCTURING"), JList}}
      [] tool_name = "create_aml_manual_review_case" ->
            {Args(Parameters(tool_name), JNull, JNull, JNull, JNull, JNull, JNull)}

\* Arguments that fit no signature: no key at all, an unexpected key, a required
\* key missing next to the others, and a JSON value that is no mapping.
MismatchedArguments ==
    {Args({}, JNull, JNull, JNull, JNull, JNull, JNull),
     Args({"merchant_id", "unexpected"}, JStr("M1005"), JNull, JNull, JNull, JNull, JNull),
     Args({"merchant_id", "new_status"}, JStr("M1005"), JNull, JNull, JNull, JStr("High"),
          JNull),
     [Args({}, JNull, JNull, JNull, JNull, JNull, JNull) EXCEPT !.mapping = FALSE]}

Requests ==
    UNION {{[json |-> "object", tool_name |-> t, arguments |-> a] :
               a \in ArgumentsFor(t) \cup OtherValues(t) \cup MismatchedArguments} :
           t \in AVAILABLE_TOOLS}
    \cup {[json |-> "object", tool_name |-> t, arguments |-> a] :
             t \in {"", "unregistered_tool"},
             a \in ArgumentsFor("update_merchant_risk_status")}
    \cup {[json |-> "not_object", tool_name |-> "", arguments |-> NoArguments]}

\* ------------------------------------------------------------------ /execute
\* POST /execute (server.py:140-170), and execute_mcp_tool on its answer
\* (orchestrator.py:183-196).
execute_tool ==
    \E req \in Requests :
        LET answer == Dispatch(req)
        IN  /\ request' = req
            /\ before' = merchants_df
            /\ response' = answer.response
            /\ invoked' = answer.invoked
            /\ merchants_df' = answer.merchants_df
            /\ output' \in execute_mcp_tool(ClientView(answer.response))
            /\ UNCHANGED <<transactions_df, driverVars>>

\* server.py:12-22: each table is read from its file, or is empty.
ServerInit ==
    /\ DriverInit
    /\ merchants_df \in {LoadedMerchants, EmptyFrame}
    /\ transactions_df \in {LoadedTransactions, <<>>}
    /\ request = NoRequest
    /\ response = NoResponse
    /\ invoked = "none"
    /\ before = merchants_df
    /\ output = NoOutput

ServerNext == execute_tool

ServerSpec == ServerInit /\ [][ServerNext]_vars

\* C11 (as claimed): under the fairness of FairSpec every wait returns and the
\* script ends; and a session whose four runs all completed is reported
\* complete.
C11_Terminates ==
    /\ <>(pc \in {"finished", "exit"})
    /\ [](pc = "retrieve" => <>(pc = "returned"))
    /\ []((pc = "between" /\ Len(runs) = Len(Agents)
             /\ \A i \in 1..Len(runs) : runs[i].status = "completed")
          => outcome = "complete")

\* ------------------------------------------------------ claims on /execute
\* The arguments of the last request, and whether they fit the signature of the
\* requested tool, stated on the request alone.
args == request.arguments
ArgumentsFit ==
    /\ args.mapping
    /\ \A k \in Parameters(request.tool_name) : k \in args.keys \/ k = "min_amount"
    /\ \A k \in args.keys : k \in Parameters(request.tool_name)

\* C14: a tool call whose arguments do not fit the tool (a key missing, an
\* unexpected key, no mapping) runs no tool function body and changes no stored
\* row; the client turns the answer into an error-shaped result and raises
\* nothing, and the answer is one of those the polling loop handles.
C14_Mismatch ==
    (request.json = "object" /\ request.tool_name \in AVAILABLE_TOOLS /\ ~ArgumentsFit)
        => /\ invoked = "none"
           /\ merchants_df = before
           /\ response.status = 400 /\ response.json = "error"
           /\ output.error /\ output # Raised
           /\ ClientView(response) \in Responses

C14_Witness ==
    /\ request.json = "object"
    /\ request.tool_name = "update_merchant_risk_status"
    /\ args.keys = {"merchant_id", "new_status"}
    /\ args.merchant_id.str \in DOMAIN before
    /\ output = ErrConn

\* The requested range, when both dates are strings that parse.
start_date == fromisoformat(args.start_date_str)
end_date == fromisoformat(args.end_date_str)
Parsed == start_date.raised = "" /\ end_date.raised = ""

\* The rows of the transaction table of the requested merchant inside the
\* requested inclusive range; no row when a date does not parse.
InPeriod ==
    {i \in 1..Len(transactions_df) :
        /\ Parsed
        /\ args.merchant_id = JStr(transactions_df[i].merchant_id)
        /\ start_date.day <= transactions_df[i].timestamp
        /\ transactions_df[i].timestamp <= end_date.day}

\* C17 (as claimed): get_merchant_aggregated_stats answers an invalid range (a
\* date that does not parse or, having an offset, cannot be compared with the
\* timestamps, or start after end) and a range without a transaction of the
\* merchant with an error that reaches the driver as an error-shaped result,
\* and every other request with the aggregates.
C17_ErrorShaped ==
    invoked = "get_merchant_aggregated_stats" =>
        IF ~Parsed \/ start_date.aware \/ end_date.aware
           \/ start_date.day > end_date.day \/ InPeriod = {}
        THEN response.value.error # "" /\ output.error
        ELSE response.value.error = "" /\ response.value.payload # <<>> /\ ~output.error

\* The status and reason a table holds for each merchant: a missing column and
\* NaN both hold nothing.
Held(df) ==
    [id \in DOMAIN df |->
        [c \in {"current_risk_status", "last_risk_reason"} |->
            IF df[id][c] \in {NoColumn, NaN} THEN JNull ELSE df[id][c]]]

\* Whether the requested merchant has a row, and what the claim lets
\* update_merchant_risk_status leave in the store when it has.
Known == args.merchant_id.type = "str" /\ args.merchant_id.str \in DOMAIN before
Updated ==
    [Held(before) EXCEPT ![args.merchant_id.str] =
        [c \in {"current_risk_status", "last_risk_reason"} |->
            IF c = "current_risk_status" THEN args.new_status ELSE args.reason_code]]

\* C18 (as claimed): for an id without a row the answer is the not-found error
\* and no row changes; for a known id the answer is the acknowledgment and only
\* that merchant's status and reason change, both of them.
C18_NotFound ==
    invoked = "update_merchant_risk_status" =>
        IF ~Known
        THEN /\ response.value.status = "error"
             /\ response.value.message = "Merchant not found for status update."
             /\ Held(merchants_df) = Held(before)
        ELSE /\ response.value.status = "success"
             /\ Held(merchants_df) = Updated

\* C19 (as claimed): every request gets a JSON answer with either the key result
\* or the key error; a tool function runs only for a registered tool_name, and
\* it is the registered one; a missing or unregistered tool_name gets an error,
\* runs no tool function and changes no row.
C19_OneOf ==
    request.json # "none" =>
        /\ response.json \in {"result", "error"}
        /\ invoked # "none" => request.tool_name \in AVAILABLE_TOOLS /\ invoked = request.tool_name
        /\ request.tool_name \notin AVAILABLE_TOOLS
              => response.json = "error" /\ invoked = "none" /\ merchants_df = before

\* The rows the claim lets get_anomalous_transactions return, and the first
\* ones of them in source order.  The threshold is the default when the key is
\* absent; no amount is at least null.
Threshold == IF "min_amount" \in args.keys THEN args.min_amount ELSE JNum(DefaultMinAmount)
Flagged ==
    {i \in InPeriod :
        Threshold.type = "num" /\ transactions_df[i].amount >= Threshold.num}
FirstFlagged(n) == {i \in Flagged : Cardinality({j \in Flagged : j < i}) < n}
Examples == response.value.payload
IsFirstTen ==
    /\ response.json = "result"
    /\ Len(Examples) <= 10
    /\ Len(Examples) = Cardinality(FirstFlagged(10))
    /\ \A k \in 1..Len(Examples) :
          \E i \in Flagged : /\ Cardinality({j \in Flagged : j < i}) = k - 1
                             /\ Examples[k] = transactions_df[i]
OneErrorRecord ==
    /\ response.json = "result"
    /\ Len(Examples) = 1
    /\ DOMAIN Examples[1] = {"error"}
NothingReturned(code) ==
    /\ response.json = "error"
    /\ response.status = code
    /\ Examples = <<>>

C21_InvalidArguments ==
    cur >= 1 =>
        \A i \in 1..Len(CurRun.tool_calls) :
            CurRun.tool_calls[i].arguments = "not_json" =>
                /\ CurRun.tool_calls[i].id \notin executed
                /\ \A k \in 1..Len(tool_outputs) :
                      tool_outputs[k].tool_call_id = CurRun.tool_calls[i].id
                          => tool_outputs[k].output = ErrArgs

\* A session has ended and no later one has begun.
SessionOver == pc \in {"between", "finished"} \/ (pc = "analyze" /\ mid > 1)
AllCompleted ==
    /\ Len(runs) = 4
    /\ \A i \in 1..Len(runs) : runs[i].status = "completed"
    /\ status = "completed"

\* C22: a session is reported complete exactly when four runs were created and
\* each was returned completed; a session that has ended is complete, halted
\* at the stage whose run was returned failed, cancelled or expired, or aborted
\* by an exception of the thread, message or run creation, and it is none of
\* the three before it has ended.
C22_Outcome ==
    /\ SessionOver <=> outcome \in {"complete", "halted", "aborted"}
    /\ outcome = "complete" <=> (SessionOver /\ AllCompleted)
    /\ outcome = "halted" =>
          /\ Len(runs) = stage
          /\ status \in FailedStatuses
          /\ runs[stage].status = status
          /\ \A i \in 1..(stage - 1) : runs[i].status = "completed"
    /\ outcome = "aborted" =>
          /\ thread = 0 \/ Len(messages) = 0 \/ Len(runs) = stage - 1
          /\ \A i \in 1..Len(runs) : runs[i].status = "completed"

C22_Witness ==
    /\ pc = "between"
    /\ mid = 2
    /\ outcome = "complete"
    /\ AllCompleted
    /\ executed # {}

\* C23: the merchants are analysed one after another in list order; after a
\* session has ended, whatever its outcome, the only step of the script is to
\* start the session of the next merchant of the list, and the script ends only
\* after the session of the last one.
C23_NextSubject ==
    [][/\ mid' = mid \/ (mid' = mid + 1 /\ pc = "between" /\ pc' = "analyze")
       /\ (pc = "between" /\ mid < Len(merchant_ids_to_analyze))
             => (pc' = "analyze" /\ mid' = mid + 1)
       /\ pc' = "analyze" => pc \in {"check_server", "between"}
       /\ pc' = "finished" => (pc = "between" /\ mid = Len(merchant_ids_to_analyze))
       /\ pc' = "exit" => pc = "check_server"]_vars

C23_Witness ==
    /\ pc = "analyze"
    /\ mid = 3
    /\ outcome = "aborted"

\* C24: while the status read for the run is none of the seven the loop
\* names, the loop is neither returned nor in the tool loop nor submitting, the
\* session has no outcome, no output is collected, and the read was followed by
\* the normal delay; the wait has returned only on a terminal status that the
\* run has.
C24_UnknownStatus ==
    /\ (status \notin KnownStatuses \cup {"none"}) =>
          /\ pc = "retrieve"
          /\ outcome = "running"
          /\ tool_outputs = <<>>
          /\ event \in {"retrieve", "retrieve_fault"}
          /\ event = "retrieve" => delay = PollDelay
    /\ pc = "returned" => (status \in TerminalStatuses /\ CurRun.status = status)

C24_Witness ==
    /\ status = "incomplete"
    /\ CurRun.status = "incomplete"
    /\ pc = "retrieve"
    /\ event = "retrieve"
    /\ delay = PollDelay
    /\ stage = 2

\* C25 (as claimed): when the read of the stage output failed (the list call
\* raised, or the newest message has no content or no text) the stage output is
\* None, the session is neither halted nor aborted, and the run of the next
\* stage is the next thing created.
C25_NoneOutput ==
    (pc \in {"run_create", "between"}
       /\ event \in {"list_raised", "list_no_content", "list_no_text"})
        => /\ last_message = NoMessage
           /\ outcome \in {"running", "complete"}
           /\ pc = "run_create" => (stage > 1 /\ Len(runs) = stage - 1)
           /\ pc = "between" => (stage = Len(Agents) /\ outcome = "complete")

\* Something of a session exists, or a session is about to start.
SessionStarted ==
    \/ pc \notin {"check_server", "exit"}
    \/ thread # 0 \/ messages # <<>> \/ runs # <<>>
    \/ outcome # "none"

\* C26: a session starts only after the tool listing request has succeeded;
\* after a failed request the script has exited, at the first merchant and with
\* no thread, no message and no run created.
C26_CheckFirst ==
    /\ SessionStarted => tools_check = "listed"
    /\ tools_check = "failed" =>
          (pc = "exit" /\ mid = 1 /\ thread = 0 /\ messages = <<>> /\ runs = <<>>)
    /\ pc = "exit" => tools_check = "failed"

C26_Witness ==
    /\ tools_check = "failed"
    /\ pc = "exit"
    /\ thread = 0
    /\ runs = <<>>

====
